---- MODULE Spec2Model ----
(***************************************************************************)
(* The asynchronous tag-classification pipeline of ph-newshub:             *)
(*   - the classification_queue table, its enqueue trigger and the         *)
(*     fetch_and_mark_queue RPC                                             *)
(*       (supabase/migrations/20260130T022502_create_tag_vectors_index.sql)*)
(*   - the auto_apply_tags edge function, /process-queue endpoint          *)
(*       (supabase/functions/auto_apply_tags/index.ts, lines 26-136)       *)
(*   - the seed_tag_embeddings edge function (same file, lines 253-288).   *)
(*                                                                         *)
(* The edge function addresses a queue row by a `status` column, the SQL   *)
(* function by the boolean `processed`.  The model keeps one status field  *)
(* per row: `processed = false` is status "pending", and the RPC's         *)
(* `SET processed = true` is the move to "processing" (the claimed state). *)
(*                                                                         *)
(* Store calls made through supabase-js return {data, error} and do not    *)
(* throw; the only call inside the item loop that throws is session.run.   *)
(*                                                                         *)
(* Each await of the handler is one step.  An invocation of                *)
(* fetch_and_mark_queue is two steps, its locking read and its update with *)
(* the commit, so that another call can run while it holds its row locks.  *)
(***************************************************************************)
EXTENDS Integers, Sequences, FiniteSets, Bags, TLC

\* ----------------------------------------------------------------- bounds
MaxQueue == 2

\* concurrent invocations of /process-queue (cron fires every minute)
Workers == {"w1", "w2"}
TagIds == {1}

\* ------------------------------------------------------ program constants
DefaultBatchSize == 5
TopK == 5
OkStatus == 200

\* ---------------------------------------------------------------- helpers
Min(a, b) == IF a <= b THEN a ELSE b

\* the n smallest members of a set of integers
FirstN(S, n) == {i \in S : Cardinality({j \in S : j < i}) < n}

RECURSIVE SetToSeq(_)
SetToSeq(S) ==
  IF S = {} THEN <<>>
  ELSE LET m == CHOOSE x \in S : \A y \in S : x <= y
       IN <<m>> \o SetToSeq(S \ {m})

Range(s) == {s[i] : i \in DOMAIN s}

\* an optional value: <<>> is null, <<v>> is the value v
Null == <<>>
Some(v) == <<v>>

\* the batch_size of the request body: Null when the body or the field is
\* absent, Some(n) when the request gives n
BodyBatchSizes == {Null, Some(0), Some(1)}

\* ------------------------------------------------------------- embeddings
\* the dimension of the catalog's vectors, embedding vector(384), at the scale
\* of ArticleVec and TagVec
EmbeddingDim == 1
\* gte-small output, abstracted to short integer vectors
ArticleVec(a) == <<a>>
TagVec(t) == <<2 * t>>
WrongDimVec == <<0, 0>>

VARIABLES
  articles,           \* the rows of "Article" (title, snippet, contentBody) by id
  queue,              \* classification_queue, in enqueued_at order; row id = index
  locked,             \* row locks held by each in-flight fetch_and_mark_queue call
  tags,               \* tags.embedding per tag id (Null or Some(vector))
  ai_classifications, \* the ai_classifications rows, as a bag of (article_id, suggestions, applied)
  article_tags,       \* the article_tags rows, as a bag of (article_id, tag_id) pairs
  pc,                 \* position of each /process-queue invocation
  batchSize,          \* its batchSize
  body,               \* the batch_size of its request body, until the claim is made
  items,              \* its items
  idx,                \* position of its for loop in items
  allTags,            \* its allTags: the rows of tags, in the order the select gave them
  embedding,          \* its embedding of the current item (Null before session.run)
  suggestions,        \* its suggestions of the current item
  results,            \* its results
  response,           \* its HTTP response
  single,             \* the invocation of the single-article entry point
  seed,               \* the runs of seed_tag_embeddings
  text                \* an article row and the textToEmbed composed from it

vars == <<articles, queue, locked, tags, ai_classifications, article_tags, pc,
          batchSize, body, items, idx, allTags, embedding, suggestions, results,
          response, single, seed, text>>

storeVars == <<articles, tags, ai_classifications, article_tags>>
localVars == <<batchSize, body, items, idx, allTags, embedding, suggestions, results,
               response>>
\* the state of the entry points other than /process-queue
otherVars == <<single, seed, text>>

\* the positions of an invocation inside its claim
ClaimPcs == {"rpc", "rpc_update", "fallback_select", "fallback_mark"}
InClaim(w) == pc[w] \in ClaimPcs

\* --------------------------------------------------------- queue helpers
QueueRow(a) == [article_id |-> a, status |-> "pending", error_message |-> ""]

\* the rows a claim would take if it also took the rows marked processing
UnfinishedRows(q) == {i \in DOMAIN q : q[i].status \in {"pending", "processing"}}

PendingRows(q) == {i \in DOMAIN q : q[i].status = "pending"}

LockedByOthers(w) == UNION {locked[v] : v \in Workers \ {w}}

SetStatus(q, ids, st) ==
  [i \in DOMAIN q |-> IF i \in ids THEN [q[i] EXCEPT !.status = st] ELSE q[i]]

SetFailed(q, id, msg) ==
  [q EXCEPT ![id] = [@ EXCEPT !.status = "failed", !.error_message = msg]]

NoResponse == [status |-> 0, kind |-> "none", processed |-> 0, details |-> <<>>]

\* the single-article entry point before its request: no local has a value
IdleSingle ==
  [pc |-> "idle", article_id |-> 0, apply |-> FALSE, embedding |-> Null,
   suggestions |-> <<>>, status |-> 0]

\* concurrent runs of seed_tag_embeddings
Seeders == {"s1", "s2"}

\* a run of seed_tag_embeddings before its select: tags is its snapshot of the
\* null-embedding rows, i the position of its for loop, embedding the vector
\* of the tag at i, updated its count of updates
IdleSeed ==
  [pc |-> "idle", tags |-> <<>>, i |-> 0, embedding |-> Null, updated |-> 0,
   status |-> 0]

\* no article row read and no text composed yet
NoText ==
  [path |-> "none", title |-> Null, snippet |-> Null, contentBody |-> Null,
   textToEmbed |-> Null]

Init ==
  /\ articles = <<>>
  /\ queue = <<>>
  /\ locked = [w \in Workers |-> {}]
  /\ tags = [t \in TagIds |-> Null]
  /\ ai_classifications = EmptyBag
  /\ article_tags = EmptyBag
  /\ pc = [w \in Workers |-> "idle"]
  /\ batchSize = [w \in Workers |-> DefaultBatchSize]
  /\ body = [w \in Workers |-> Null]
  /\ items = [w \in Workers |-> <<>>]
  /\ idx = [w \in Workers |-> 0]
  /\ allTags = [w \in Workers |-> <<>>]
  /\ embedding = [w \in Workers |-> Null]
  /\ suggestions = [w \in Workers |-> <<>>]
  /\ results = [w \in Workers |-> <<>>]
  /\ response = [w \in Workers |-> NoResponse]
  /\ single = IdleSingle
  /\ seed = [r \in Seeders |-> IdleSeed]
  /\ text = NoText

\* ------------------------------------------------------- enqueue trigger
\* Article ids are generated and never reused.  Every inserted article got a
\* queue row from the trigger, so the ids used so far are those in the queue.
NextArticleId == 1 + Cardinality({queue[i].article_id : i \in DOMAIN queue})

\* a row of "Article": the columns the pipeline reads; a column is Null or
\* Some(text)
Row(t, s, b) == [title |-> t, snippet |-> s, contentBody |-> b]

\* the row the content source writes, and the rows it edits a row to
WrittenRow == Row(Some("a"), Null, Null)
EditedRows == {WrittenRow, Row(Some("b"), Null, Null)}

\* x IS DISTINCT FROM y: inequality that takes null as a value
IsDistinctFrom(x, y) == x # y

\* a trigger function that enqueues on every write
enqueue_on_every_write(q, op, id, old, new) ==
  IF op \in {"INSERT", "UPDATE"} THEN Append(q, QueueRow(id)) ELSE q

\* a trigger function that compares the title only
enqueue_title_only(q, op, id, old, new) ==
  IF op = "INSERT" THEN Append(q, QueueRow(id))
  ELSE IF op = "UPDATE" /\ IsDistinctFrom(new.title, old.title)
       THEN Append(q, QueueRow(id))
  ELSE q

\* enqueue_article_for_classification(): the queue after the trigger function
\* ran for operation op on the row id, OLD = old, NEW = new
enqueue_article_for_classification(q, op, id, old, new) ==
  IF op = "INSERT" THEN Append(q, QueueRow(id))
  ELSE IF op = "UPDATE"
       THEN IF IsDistinctFrom(new.title, old.title)
               \/ IsDistinctFrom(new.contentBody, old.contentBody)
            THEN Append(q, QueueRow(id))
            ELSE q
  ELSE q

\* The trigger on "Article": row-level, for the operations TriggerOps.  The
\* migration announces it ("4) Attach trigger to Article table") and holds no
\* CREATE TRIGGER statement; the operations are those of the enqueue contract.
TriggerOps == {"INSERT", "UPDATE"}

ArticleTrigger(q, op, id, old, new) ==
  IF op \in TriggerOps
  THEN enqueue_article_for_classification(q, op, id, old, new)
  ELSE q

\* INSERT on "Article": the trigger appends one pending row
InsertArticle(new) ==
  /\ Len(queue) < MaxQueue
  /\ articles' = [a \in DOMAIN articles \cup {NextArticleId} |->
                    IF a = NextArticleId THEN new ELSE articles[a]]
  /\ queue' = ArticleTrigger(queue, "INSERT", NextArticleId, new, new)
  /\ UNCHANGED <<locked, tags, ai_classifications, article_tags, pc, localVars,
                 otherVars>>

\* UPDATE on "Article": the trigger appends one pending row when the title or
\* the contentBody changed
UpdateArticle(a, new) ==
  /\ a \in DOMAIN articles
  /\ LET q == ArticleTrigger(queue, "UPDATE", a, articles[a], new)
     IN /\ Len(q) <= MaxQueue
        /\ queue' = q
  /\ articles' = [articles EXCEPT ![a] = new]
  /\ UNCHANGED <<locked, tags, ai_classifications, article_tags, pc, localVars,
                 otherVars>>

\* fk_article ... ON DELETE CASCADE: the rows of article a go with it
CascadeDelete(table, a) ==
  [p \in {r \in DOMAIN table : r[1] # a} |-> table[p]]

\* DELETE on "Article": article_tags rows cascade; the queue keeps its rows
DeleteArticle(a) ==
  /\ a \in DOMAIN articles
  /\ articles' = [b \in DOMAIN articles \ {a} |-> articles[b]]
  /\ article_tags' = CascadeDelete(article_tags, a)
  /\ UNCHANGED <<queue, locked, tags, ai_classifications, pc, localVars,
                 otherVars>>

\* ------------------------------------------------- /process-queue: claim
\* A local that the handler does not read again is put back to its initial
\* value (batchSize and body after the claim, allTags and results after the
\* response).
\* let batchSize = 5; if (b.batch_size) batchSize = b.batch_size
\* 0 is falsy: the default stays
ParseBatchSize(b) == IF b # Null /\ b[1] # 0 THEN b[1] ELSE DefaultBatchSize

Invoke(w, b) ==
  /\ pc[w] = "idle"
  /\ pc' = [pc EXCEPT ![w] = "rpc"]
  /\ batchSize' = [batchSize EXCEPT ![w] = ParseBatchSize(b)]
  /\ body' = [body EXCEPT ![w] = b]
  /\ UNCHANGED <<queue, locked, storeVars, items, idx, allTags,
                 embedding, suggestions, results, response,
                 otherVars>>

\* a cte that forgets LIMIT p_limit
CteRowsNoLimit(q, lockedElsewhere, n) == PendingRows(q) \ lockedElsewhere

\* the cte of fetch_and_mark_queue:
\*   WHERE processed = false ORDER BY enqueued_at LIMIT p_limit
\*   FOR UPDATE SKIP LOCKED
CteRows(q, lockedElsewhere, n) == FirstN(PendingRows(q) \ lockedElsewhere, n)

\* a locking read without SKIP LOCKED: it waits while a row it wants is locked
RpcSelectWaits(w) ==
  /\ pc[w] = "rpc"
  /\ FirstN(PendingRows(queue), batchSize[w]) \cap LockedByOthers(w) = {}
  /\ locked' = [locked EXCEPT ![w] = FirstN(PendingRows(queue), batchSize[w])]
  /\ pc' = [pc EXCEPT ![w] = "rpc_update"]
  /\ UNCHANGED <<queue, storeVars, batchSize, body, items, idx, allTags,
                 embedding, suggestions, results, response,
                 otherVars>>

RpcSelect(w) ==
  /\ pc[w] = "rpc"
  /\ locked' = [locked EXCEPT ![w] = CteRows(queue, LockedByOthers(w), batchSize[w])]
  /\ pc' = [pc EXCEPT ![w] = "rpc_update"]
  /\ UNCHANGED <<queue, storeVars, batchSize, body, items, idx, allTags,
                 embedding, suggestions, results, response,
                 otherVars>>

\* UPDATE ... SET processed = true FROM cte ... RETURNING, then commit
RpcCommit(w) ==
  /\ pc[w] = "rpc_update"
  /\ queue' = SetStatus(queue, locked[w], "processing")
  /\ items' = [items EXCEPT ![w] = SetToSeq(locked[w])]
  /\ locked' = [locked EXCEPT ![w] = {}]
  /\ pc' = [pc EXCEPT ![w] = "claimed"]
  /\ batchSize' = [batchSize EXCEPT ![w] = DefaultBatchSize]
  /\ body' = [body EXCEPT ![w] = Null]
  /\ UNCHANGED <<storeVars, idx, allTags, embedding, suggestions, results, response,
                 otherVars>>

\* the rpc call returns an error before it locked anything (qErr)
RpcError(w) ==
  /\ pc[w] = "rpc"
  /\ pc' = [pc EXCEPT ![w] = "fallback_select"]
  /\ UNCHANGED <<queue, locked, storeVars, localVars,
                 otherVars>>

\* the transaction aborts: locks released, nothing updated, qErr
RpcRollback(w) ==
  /\ pc[w] = "rpc_update"
  /\ locked' = [locked EXCEPT ![w] = {}]
  /\ pc' = [pc EXCEPT ![w] = "fallback_select"]
  /\ UNCHANGED <<queue, storeVars, batchSize, body, items, idx, allTags,
                 embedding, suggestions, results, response,
                 otherVars>>

\* Fallback: .from('classification_queue').select('id, article_id')
\*   .eq('status', 'pending').limit(batchSize)
\* No ORDER BY: the store may return any batchSize of the pending rows.  It
\* takes no lock and does not see other transactions' locks.
ManualData(q, n) ==
  {S \in SUBSET PendingRows(q) : Cardinality(S) = Min(n, Cardinality(PendingRows(q)))}

FallbackSelect(w) ==
  /\ pc[w] = "fallback_select"
  /\ \E S \in ManualData(queue, batchSize[w]) :
       /\ items' = [items EXCEPT ![w] = SetToSeq(S)]
       /\ pc' = [pc EXCEPT ![w] = IF S # {} THEN "fallback_mark" ELSE "claimed"]
  /\ batchSize' = [batchSize EXCEPT ![w] = DefaultBatchSize]
  /\ body' = [body EXCEPT ![w] = Null]
  /\ UNCHANGED <<queue, locked, storeVars, idx, allTags, embedding, suggestions, results,
                 response,
                 otherVars>>

\* the fallback select itself fails: manualData is null, items stays []
FallbackSelectError(w) ==
  /\ pc[w] = "fallback_select"
  /\ items' = [items EXCEPT ![w] = <<>>]
  /\ pc' = [pc EXCEPT ![w] = "claim_failed"]
  /\ batchSize' = [batchSize EXCEPT ![w] = DefaultBatchSize]
  /\ body' = [body EXCEPT ![w] = Null]
  /\ UNCHANGED <<queue, locked, storeVars, idx, allTags, embedding, suggestions, results,
                 response,
                 otherVars>>

\* .update({ status: 'processing' }).in('id', ids): no condition on status.
\* An UPDATE waits for a row lock held by an in-flight transaction.
MarkProcessing(q, ids) == SetStatus(q, ids, "processing")

FallbackMark(w) ==
  /\ pc[w] = "fallback_mark"
  /\ Range(items[w]) \cap LockedByOthers(w) = {}
  /\ queue' = MarkProcessing(queue, Range(items[w]))
  /\ pc' = [pc EXCEPT ![w] = "claimed"]
  /\ UNCHANGED <<locked, storeVars, localVars,
                 otherVars>>

\* if (!items || items.length === 0) return 200 { message: 'No items to process' }
RespondNoItems(w) ==
  /\ pc[w] \in {"claimed", "claim_failed"}
  /\ items[w] = <<>>
  /\ response' = [response EXCEPT ![w] =
                    [status |-> OkStatus, kind |-> "message", processed |-> 0,
                     details |-> <<>>]]
  /\ pc' = [pc EXCEPT ![w] = "done"]
  /\ UNCHANGED <<queue, locked, storeVars, batchSize, body, items, idx,
                 allTags, embedding, suggestions, results,
                 otherVars>>

\* the orders in which a select without ORDER BY may give the rows of S
RECURSIVE Perms(_)
Perms(S) ==
  IF S = {} THEN {<<>>}
  ELSE UNION {{<<x>> \o o : o \in Perms(S \ {x})} : x \in S}

\* supabase.from('tags').select('id, name, embedding'): every row, in any order
TagRows(catalog) ==
  {[i \in DOMAIN o |-> [id |-> o[i], embedding |-> catalog[o[i]]]] :
     o \in Perms(DOMAIN catalog)}

\* const { data: allTags } = await supabase.from('tags').select(...)
LoadTags(w) ==
  /\ pc[w] = "claimed"
  /\ items[w] # <<>>
  /\ \E rows \in TagRows(tags) : allTags' = [allTags EXCEPT ![w] = rows]
  /\ idx' = [idx EXCEPT ![w] = 1]
  /\ pc' = [pc EXCEPT ![w] = "loop"]
  /\ UNCHANGED <<queue, locked, storeVars, batchSize, body, items,
                 embedding, suggestions, results, response,
                 otherVars>>

\* --------------------------------------------------------------- ranking
Infinity == -1

RECURSIVE SumSq(_, _, _)
SumSq(a, b, i) ==
  IF i > Len(a) THEN 0 ELSE (a[i] - b[i]) * (a[i] - b[i]) + SumSq(a, b, i + 1)

\* computeDist: the L2 distance, Infinity when the lengths differ.  The model
\* keeps the sum of squares s in place of Math.sqrt(s); sqrt is strictly
\* increasing, so the order of two distances and their equality are the same.
computeDist(a, b) == IF Len(a) # Len(b) THEN Infinity ELSE SumSq(a, b, 1)

\* scored: the rows with an embedding, in the order of allTags, with a
\* finite distance
RECURSIVE Scored(_, _)
Scored(emb, rows) ==
  IF rows = <<>> THEN <<>>
  ELSE LET t == Head(rows)
           rest == Scored(emb, Tail(rows))
       IN IF t.embedding = Null THEN rest
          ELSE LET d == computeDist(emb, t.embedding[1])
               IN IF d = Infinity THEN rest
                  ELSE <<[tag_id |-> t.id, distance |-> d]>> \o rest

\* scored.sort((x, y) => x.distance - y.distance): a stable sort
RECURSIVE InsertSorted(_, _)
InsertSorted(s, x) ==
  IF s = <<>> THEN <<x>>
  ELSE IF x.distance < Head(s).distance THEN <<x>> \o s
  ELSE <<Head(s)>> \o InsertSorted(Tail(s), x)

\* a ranking that leaves scored in the order of allTags
KeepOrder(s) == s

RECURSIVE SortByDistance(_)
SortByDistance(s) ==
  IF s = <<>> THEN <<>>
  ELSE InsertSorted(SortByDistance(SubSeq(s, 1, Len(s) - 1)), s[Len(s)])

\* scored.slice(0, 5)
Slice(s, n) == SubSeq(s, 1, Min(n, Len(s)))

Suggestions(emb, rows) == Slice(SortByDistance(Scored(emb, rows)), TopK)

\* ------------------------------------------- /process-queue: the item loop
Item(w) == items[w][idx[w]]
ItemArticle(w) == queue[Item(w)].article_id

\* a fetch that goes on to the next item when the article is gone and leaves
\* the queue row as it is
FetchArticleContinues(w) ==
  /\ pc[w] = "loop"
  /\ idx[w] <= Len(items[w])
  /\ IF ItemArticle(w) \in DOMAIN articles
       THEN /\ pc' = [pc EXCEPT ![w] = "embed"]
            /\ UNCHANGED idx
       ELSE /\ idx' = [idx EXCEPT ![w] = @ + 1]
            /\ UNCHANGED pc
  /\ UNCHANGED <<queue, locked, storeVars, batchSize, body, items, allTags,
                 embedding, suggestions, results, response, otherVars>>

\* a fetch that does not look at the article it got
FetchArticleNoCheck(w) ==
  /\ pc[w] = "loop"
  /\ idx[w] <= Len(items[w])
  /\ pc' = [pc EXCEPT ![w] = "embed"]
  /\ UNCHANGED <<queue, locked, storeVars, batchSize, body, items, idx, allTags,
                 embedding, suggestions, results, response, otherVars>>

\* fetch the article; if (!article) mark failed 'Article not found'; continue
FetchArticle(w) ==
  /\ pc[w] = "loop"
  /\ idx[w] <= Len(items[w])
  /\ IF ItemArticle(w) \in DOMAIN articles
       THEN /\ pc' = [pc EXCEPT ![w] = "embed"]
            /\ UNCHANGED <<queue, idx>>
       ELSE /\ queue' = SetFailed(queue, Item(w), "Article not found")
            /\ idx' = [idx EXCEPT ![w] = @ + 1]
            /\ UNCHANGED pc
  /\ UNCHANGED <<locked, storeVars, batchSize, body, items, allTags,
                 embedding, suggestions, results, response,
                 otherVars>>

LoopPcs == {"loop", "embed", "save", "apply", "complete"}

\* what session.run can do: throw, give a falsy result, give a vector of
\* another length, or give the vector of the text
EmbedOutcomes == {"throw", "null", "wrongdim", "ok"}

\* the truthy value session.run gave for article a
EmbeddingOf(out, a) == IF out = "ok" THEN ArticleVec(a) ELSE WrongDimVec

FailedResult(a) == [article_id |-> a, status |-> "failed", error |-> "Error"]
SuccessResult(a) == [article_id |-> a, status |-> "success", error |-> ""]

\* an item loop without the try/catch: the exception of session.run leaves
\* the loop and the handler answers from its outer catch
ErrorStatus == 500

EmbedNoCatch(w, out) ==
  /\ pc[w] = "embed"
  /\ out = "throw"
  /\ response' = [response EXCEPT ![w] =
                    [status |-> ErrorStatus, kind |-> "error", processed |-> 0,
                     details |-> <<>>]]
  /\ pc' = [pc EXCEPT ![w] = "done"]
  /\ UNCHANGED <<queue, locked, storeVars, batchSize, body, items, idx, allTags,
                 embedding, suggestions, results,
                 otherVars>>

\* a loop that selects the tags again for every item and ranks against the
\* rows it got
EmbedReloads(w, out) ==
  /\ pc[w] = "embed"
  /\ CASE out = "throw" ->
            /\ queue' = SetFailed(queue, Item(w), "Error")
            /\ results' = [results EXCEPT ![w] = Append(@, FailedResult(ItemArticle(w)))]
            /\ idx' = [idx EXCEPT ![w] = @ + 1]
            /\ pc' = [pc EXCEPT ![w] = "loop"]
            /\ UNCHANGED <<embedding, suggestions>>
       [] out = "null" ->
            /\ queue' = SetFailed(queue, Item(w), "Embedding failed")
            /\ idx' = [idx EXCEPT ![w] = @ + 1]
            /\ pc' = [pc EXCEPT ![w] = "loop"]
            /\ UNCHANGED <<embedding, suggestions, results>>
       [] OTHER ->
            /\ embedding' = [embedding EXCEPT ![w] =
                 Some(EmbeddingOf(out, ItemArticle(w)))]
            /\ \E rows \in TagRows(tags) :
                 suggestions' = [suggestions EXCEPT ![w] =
                   Suggestions(EmbeddingOf(out, ItemArticle(w)), rows)]
            /\ pc' = [pc EXCEPT ![w] = "save"]
            /\ UNCHANGED <<queue, idx, results>>
  /\ UNCHANGED <<locked, storeVars, batchSize, body, items, allTags, response,
                 otherVars>>

\* session.run(textToEmbed); if (!embedding) mark failed 'Embedding failed';
\* continue.  A throw lands in the catch: mark failed, push a failed result.
Embed(w, out) ==
  /\ pc[w] = "embed"
  /\ CASE out = "throw" ->
            /\ queue' = SetFailed(queue, Item(w), "Error")
            /\ results' = [results EXCEPT ![w] = Append(@, FailedResult(ItemArticle(w)))]
            /\ idx' = [idx EXCEPT ![w] = @ + 1]
            /\ pc' = [pc EXCEPT ![w] = "loop"]
            /\ UNCHANGED <<embedding, suggestions>>
       [] out = "null" ->
            /\ queue' = SetFailed(queue, Item(w), "Embedding failed")
            /\ idx' = [idx EXCEPT ![w] = @ + 1]
            /\ pc' = [pc EXCEPT ![w] = "loop"]
            /\ UNCHANGED <<embedding, suggestions, results>>
       [] OTHER ->
            /\ embedding' = [embedding EXCEPT ![w] =
                 Some(EmbeddingOf(out, ItemArticle(w)))]
            /\ suggestions' = [suggestions EXCEPT ![w] =
                 Suggestions(EmbeddingOf(out, ItemArticle(w)), allTags[w])]
            /\ pc' = [pc EXCEPT ![w] = "save"]
            /\ UNCHANGED <<queue, idx, results>>
  /\ UNCHANGED <<locked, storeVars, batchSize, body, items, allTags, response,
                 otherVars>>

\* a handler for which a ranking without suggestions is an error of the item
SaveResultRejectsEmpty(w, ok) ==
  /\ pc[w] = "save"
  /\ IF Len(suggestions[w]) > 0
       THEN /\ ai_classifications' =
                 IF ok THEN ai_classifications (+)
                              SetToBag({[article_id |-> ItemArticle(w),
                                         suggestions |-> suggestions[w], applied |-> TRUE]})
                 ELSE ai_classifications
            /\ pc' = [pc EXCEPT ![w] = "apply"]
            /\ UNCHANGED <<queue, idx, embedding>>
       ELSE /\ queue' = SetFailed(queue, Item(w), "No suggestions")
            /\ idx' = [idx EXCEPT ![w] = @ + 1]
            /\ embedding' = [embedding EXCEPT ![w] = Null]
            /\ pc' = [pc EXCEPT ![w] = "loop"]
            /\ UNCHANGED ai_classifications
  /\ UNCHANGED <<articles, locked, tags, article_tags, batchSize, body, items, allTags,
                 suggestions, results, response, otherVars>>

\* insert into ai_classifications { article_id, suggestions, applied: true };
\* an error of the insert is returned, not thrown, and is not looked at
SaveResult(w, ok) ==
  /\ pc[w] = "save"
  /\ ai_classifications' =
       IF ok THEN ai_classifications (+)
                    SetToBag({[article_id |-> ItemArticle(w),
                               suggestions |-> suggestions[w], applied |-> TRUE]})
       ELSE ai_classifications
  /\ pc' = [pc EXCEPT ![w] = IF Len(suggestions[w]) > 0 THEN "apply" ELSE "complete"]
  /\ UNCHANGED <<articles, queue, locked, tags, article_tags, localVars,
                 otherVars>>

\* toInsert = suggestions.map(s => ({ article_id, tag_id: s.tag_id }))
ToInsert(a, sugg) == {<<a, sugg[i].tag_id>> : i \in DOMAIN sugg}

\* an insert that adds every row, whatever the table holds
InsertAll(table, rows) == table (+) SetToBag(rows)

\* upsert(toInsert, { onConflict: 'article_id,tag_id', ignoreDuplicates: true }):
\* INSERT ... ON CONFLICT (article_id, tag_id) DO NOTHING adds the rows whose
\* pair the table does not hold and skips the others without an error
Upsert(table, rows) == table (+) SetToBag(rows \ BagToSet(table))

\* an upsert that stores its rows and then throws: the catch marks the item
\* failed
ApplyTagsThrows(w) ==
  /\ pc[w] = "apply"
  /\ article_tags' =
       IF ItemArticle(w) \in DOMAIN articles
       THEN Upsert(article_tags, ToInsert(ItemArticle(w), suggestions[w]))
       ELSE article_tags
  /\ queue' = SetFailed(queue, Item(w), "Error")
  /\ results' = [results EXCEPT ![w] = Append(@, FailedResult(ItemArticle(w)))]
  /\ idx' = [idx EXCEPT ![w] = @ + 1]
  /\ embedding' = [embedding EXCEPT ![w] = Null]
  /\ suggestions' = [suggestions EXCEPT ![w] = <<>>]
  /\ pc' = [pc EXCEPT ![w] = "loop"]
  /\ UNCHANGED <<articles, locked, tags, ai_classifications, batchSize, body,
                 items, allTags, response, otherVars>>

\* upsert into article_tags, onConflict article_id,tag_id, ignoreDuplicates.
\* fk_article: the statement inserts nothing when the article is gone.
ApplyTags(w) ==
  /\ pc[w] = "apply"
  /\ article_tags' =
       IF ItemArticle(w) \in DOMAIN articles
       THEN Upsert(article_tags, ToInsert(ItemArticle(w), suggestions[w]))
       ELSE article_tags
  /\ pc' = [pc EXCEPT ![w] = "complete"]
  /\ UNCHANGED <<articles, queue, locked, tags, ai_classifications, localVars,
                 otherVars>>

\* update status 'completed'; results.push({ article_id, status: 'success' })
MarkCompleted(w) ==
  /\ pc[w] = "complete"
  /\ queue' = SetStatus(queue, {Item(w)}, "completed")
  /\ results' = [results EXCEPT ![w] = Append(@, SuccessResult(ItemArticle(w)))]
  /\ idx' = [idx EXCEPT ![w] = @ + 1]
  /\ embedding' = [embedding EXCEPT ![w] = Null]
  /\ suggestions' = [suggestions EXCEPT ![w] = <<>>]
  /\ pc' = [pc EXCEPT ![w] = "loop"]
  /\ UNCHANGED <<locked, storeVars, batchSize, body, items, allTags, response,
                 otherVars>>

\* a response whose status reports the items that failed
RespondFailsOnItemFailure(w) ==
  /\ pc[w] = "loop"
  /\ idx[w] > Len(items[w])
  /\ response' = [response EXCEPT ![w] =
                    [status |-> IF \E j \in DOMAIN items[w] :
                                     queue[items[w][j]].status = "failed"
                                THEN ErrorStatus ELSE OkStatus,
                     kind |-> "processed",
                     processed |-> Len(results[w]), details |-> results[w]]]
  /\ pc' = [pc EXCEPT ![w] = "done"]
  /\ allTags' = [allTags EXCEPT ![w] = <<>>]
  /\ results' = [results EXCEPT ![w] = <<>>]
  /\ UNCHANGED <<queue, locked, storeVars, batchSize, body, items, idx, embedding, suggestions,
                 otherVars>>

\* return 200 { processed: results.length, details: results }
Respond(w) ==
  /\ pc[w] = "loop"
  /\ idx[w] > Len(items[w])
  /\ response' = [response EXCEPT ![w] =
                    [status |-> OkStatus, kind |-> "processed",
                     processed |-> Len(results[w]), details |-> results[w]]]
  /\ pc' = [pc EXCEPT ![w] = "done"]
  /\ allTags' = [allTags EXCEPT ![w] = <<>>]
  /\ results' = [results EXCEPT ![w] = <<>>]
  /\ UNCHANGED <<queue, locked, storeVars, batchSize, body, items, idx, embedding, suggestions,
                 otherVars>>

\* ------------------------------------------- the single-article entry point
\* POST { article_id, apply }.  article_id 0 stands for an absent or falsy id.
MaxRecords == 2
SingleArticleIds == {0, 1, 2}

BadRequestStatus == 400
NotFoundStatus == 404

\* const apply = body?.apply === true; if (!article_id) return 400
SingleRequest(a, apply) ==
  /\ single.pc \in {"idle", "done"}
  /\ BagCardinality(ai_classifications) < MaxRecords
  /\ single' = IF a = 0
               THEN [IdleSingle EXCEPT !.pc = "done", !.apply = apply,
                                       !.status = BadRequestStatus]
               ELSE [IdleSingle EXCEPT !.pc = "fetch", !.article_id = a,
                                       !.apply = apply]
  /\ UNCHANGED <<queue, locked, storeVars, pc, localVars, seed, text>>

SingleDone(st) ==
  [single EXCEPT !.pc = "done", !.status = st, !.embedding = Null]

\* fetch the article: articleErr gives 500, no article gives 404
SingleFetchArticle(ok) ==
  /\ single.pc = "fetch"
  /\ single' = IF ~ok THEN SingleDone(ErrorStatus)
               ELSE IF single.article_id \notin DOMAIN articles THEN SingleDone(NotFoundStatus)
               ELSE [single EXCEPT !.pc = "embed"]
  /\ UNCHANGED <<queue, locked, storeVars, pc, localVars, seed, text>>

\* session.run(textToEmbed); if (!embedding || !Array.isArray(embedding))
\* return 500.  A throw lands in the outer catch: 500.
SingleEmbed(out) ==
  /\ single.pc = "embed"
  /\ single' = IF out \in {"throw", "null"} THEN SingleDone(ErrorStatus)
               ELSE [single EXCEPT !.pc = "tags",
                       !.embedding = Some(EmbeddingOf(out, single.article_id))]
  /\ UNCHANGED <<queue, locked, storeVars, pc, localVars, seed, text>>

\* select the tags (allErr gives 500), then score, sort and slice
SingleLoadTags(ok) ==
  /\ single.pc = "tags"
  /\ \/ /\ ~ok
        /\ single' = SingleDone(ErrorStatus)
     \/ /\ ok
        /\ \E rows \in TagRows(tags) :
             single' = [single EXCEPT !.pc = "save",
                          !.suggestions = Suggestions(single.embedding[1], rows)]
  /\ UNCHANGED <<queue, locked, storeVars, pc, localVars, seed, text>>

\* a handler that writes the assignments whatever apply says
SingleSaveResultAlwaysApply(ok) ==
  /\ single.pc = "save"
  /\ ai_classifications' =
       IF ok THEN ai_classifications (+)
                    SetToBag({[article_id |-> single.article_id,
                               suggestions |-> single.suggestions,
                               applied |-> single.apply]})
       ELSE ai_classifications
  /\ single' = [single EXCEPT !.pc =
                  IF Len(single.suggestions) > 0 THEN "apply" ELSE "respond"]
  /\ UNCHANGED <<articles, queue, locked, tags, article_tags, pc, localVars,
                 seed, text>>

\* insert into ai_classifications { article_id, suggestions, applied: apply };
\* insertErr is logged only
SingleSaveResult(ok) ==
  /\ single.pc = "save"
  /\ ai_classifications' =
       IF ok THEN ai_classifications (+)
                    SetToBag({[article_id |-> single.article_id,
                               suggestions |-> single.suggestions,
                               applied |-> single.apply]})
       ELSE ai_classifications
  /\ single' = [single EXCEPT !.pc =
                  IF single.apply /\ Len(single.suggestions) > 0
                  THEN "apply" ELSE "respond"]
  /\ UNCHANGED <<articles, queue, locked, tags, article_tags, pc, localVars,
                 seed, text>>

\* if (apply && suggestions.length > 0) upsert into article_tags; atErr is
\* logged only
SingleApplyTags ==
  /\ single.pc = "apply"
  /\ article_tags' =
       IF single.article_id \in DOMAIN articles
       THEN Upsert(article_tags, ToInsert(single.article_id, single.suggestions))
       ELSE article_tags
  /\ single' = [single EXCEPT !.pc = "respond"]
  /\ UNCHANGED <<articles, queue, locked, tags, ai_classifications, pc,
                 localVars, seed, text>>

\* return 200 { suggestions }
SingleRespond ==
  /\ single.pc = "respond"
  /\ single' = SingleDone(OkStatus)
  /\ UNCHANGED <<queue, locked, storeVars, pc, localVars, seed, text>>

\* ------------------------------------------------- seed_tag_embeddings
\* the rows of all tags, whatever their embedding
AllTags(catalog) == DOMAIN catalog

\* .from('tags').select('id, name').is('embedding', null)
NullTags(catalog) == {t \in DOMAIN catalog : catalog[t] = Null}

\* the response of a run; its locals are dead and go back to their initial
\* values, its count stays as the message reports it
SeedDone(r, st) ==
  [seed EXCEPT ![r] = [IdleSeed EXCEPT !.pc = "done", !.status = st,
                                       !.updated = seed[r].updated]]

\* the select: an error gives 500, no row gives 200 'No tags to seed'
SeedSelect(r, ok) ==
  /\ seed[r].pc \in {"idle", "done"}
  /\ \/ /\ ~ok
        /\ seed' = [seed EXCEPT ![r] = [IdleSeed EXCEPT !.pc = "done",
                                                        !.status = ErrorStatus]]
     \/ /\ ok
        /\ \E snap \in Perms(NullTags(tags)) :
             seed' = [seed EXCEPT ![r] =
                        IF snap = <<>>
                        THEN [IdleSeed EXCEPT !.pc = "done", !.status = OkStatus]
                        ELSE [IdleSeed EXCEPT !.pc = "run", !.tags = snap, !.i = 1]]
  /\ UNCHANGED <<queue, locked, storeVars, pc, localVars, single, text>>

\* a provider whose vector for a name depends on when it is asked
SeedEmbeddingByState(t) ==
  <<2 * t + Cardinality({u \in DOMAIN tags : tags[u] # Null})>>

\* the vector session.run gives for tag.name: the same for the same name
SeedEmbedding(t) == TagVec(t)

\* session.run(tag.name): a throw lands in the catch (500); a falsy result
\* skips the tag
SeedRun(r, out) ==
  /\ seed[r].pc = "run"
  /\ seed[r].i <= Len(seed[r].tags)
  /\ seed' = CASE out = "throw" -> SeedDone(r, ErrorStatus)
               [] out = "null" -> [seed EXCEPT ![r].i = @ + 1]
               [] out = "ok" ->
                    [seed EXCEPT ![r].pc = "update",
                                 ![r].embedding = Some(SeedEmbedding(seed[r].tags[seed[r].i]))]
               [] OTHER ->
                    [seed EXCEPT ![r].pc = "update",
                                 ![r].embedding = Some(WrongDimVec)]
  /\ UNCHANGED <<queue, locked, storeVars, pc, localVars, single, text>>

\* update tags set embedding = ... where id = tag.id.  The column is
\* vector(384): the store refuses a value of another dimension (updateErr).
SeedUpdate(r, ok) ==
  /\ seed[r].pc = "update"
  /\ LET t == seed[r].tags[seed[r].i]
         accepted == ok /\ Len(seed[r].embedding[1]) = EmbeddingDim
     IN /\ tags' = IF accepted THEN [tags EXCEPT ![t] = seed[r].embedding] ELSE tags
        /\ seed' = [seed EXCEPT ![r].pc = "run", ![r].i = @ + 1,
                                ![r].embedding = Null,
                                ![r].updated = IF accepted THEN @ + 1 ELSE @]
  /\ UNCHANGED <<articles, queue, locked, ai_classifications, article_tags, pc,
                 localVars, single, text>>

\* return { message: `Seeded ${updated} tags` }
SeedRespond(r) ==
  /\ seed[r].pc = "run"
  /\ seed[r].i > Len(seed[r].tags)
  /\ seed' = SeedDone(r, OkStatus)
  /\ UNCHANGED <<queue, locked, storeVars, pc, localVars, single, text>>

\* What the runs of seed_tag_embeddings do to the catalog, as the batch
\* handler sees it: the embedding of a tag without one is set, one tag at a
\* time.
SeedTag(t) ==
  /\ tags[t] = Null
  /\ tags' = [tags EXCEPT ![t] = Some(TagVec(t))]
  /\ UNCHANGED <<articles, queue, locked, ai_classifications, article_tags, pc,
                 localVars,
                 otherVars>>

Next ==
  \/ InsertArticle(WrittenRow)
  \/ \E a \in DOMAIN articles :
       \/ \E new \in EditedRows : UpdateArticle(a, new)
       \/ DeleteArticle(a)
  \/ \E t \in DOMAIN tags : SeedTag(t)
  \/ \E w \in Workers :
       \/ \E b \in BodyBatchSizes : Invoke(w, b)
       \/ RpcSelect(w)
       \/ RpcCommit(w)
       \/ RpcError(w)
       \/ RpcRollback(w)
       \/ FallbackSelect(w)
       \/ FallbackSelectError(w)
       \/ FallbackMark(w)
       \/ RespondNoItems(w)
       \/ LoadTags(w)
       \/ FetchArticle(w)
       \/ \E out \in EmbedOutcomes : Embed(w, out)
       \/ \E ok \in BOOLEAN : SaveResult(w, ok)
       \/ ApplyTags(w)
       \/ MarkCompleted(w)
       \/ Respond(w)

Spec == Init /\ [][Next]_vars

\* ------------------------------------------------ Scenario C of the spec
\* exactly DefaultBatchSize pending rows, enqueued after the rows that earlier
\* batches have finished, and two invocations that each ask for
\* DefaultBatchSize rows; only the claim steps of the handler
FinishedRow(st) ==
  [article_id |-> 1, status |-> st,
   error_message |-> IF st = "failed" THEN "Embedding failed" ELSE ""]

ScenarioHistories ==
  {<<>>} \cup {<<FinishedRow(st)>> : st \in {"completed", "failed"}}

ScenarioRows == {i \in DOMAIN queue : i > Len(queue) - DefaultBatchSize}

InitScenarioC ==
  /\ articles = [a \in 1..DefaultBatchSize |-> WrittenRow]
  /\ \E h \in ScenarioHistories :
       queue = h \o [i \in 1..DefaultBatchSize |-> QueueRow(i)]
  /\ locked = [w \in Workers |-> {}]
  /\ tags = [t \in TagIds |-> Null]
  /\ ai_classifications = EmptyBag
  /\ article_tags = EmptyBag
  /\ pc = [w \in Workers |-> "idle"]
  /\ batchSize = [w \in Workers |-> DefaultBatchSize]
  /\ body = [w \in Workers |-> Null]
  /\ items = [w \in Workers |-> <<>>]
  /\ idx = [w \in Workers |-> 0]
  /\ allTags = [w \in Workers |-> <<>>]
  /\ embedding = [w \in Workers |-> Null]
  /\ suggestions = [w \in Workers |-> <<>>]
  /\ results = [w \in Workers |-> <<>>]
  /\ response = [w \in Workers |-> NoResponse]
  /\ single = IdleSingle
  /\ seed = [r \in Seeders |-> IdleSeed]
  /\ text = NoText

NextScenarioC ==
  \E w \in Workers :
    \/ Invoke(w, Some(DefaultBatchSize))
    \/ RpcSelect(w)
    \/ RpcCommit(w)
    \/ RpcError(w)
    \/ RpcRollback(w)
    \/ FallbackSelect(w)
    \/ FallbackSelectError(w)
    \/ FallbackMark(w)

SpecScenarioC == InitScenarioC /\ [][NextScenarioC]_vars

\* ------------------------------------- the single-article entry point alone
\* Requests to the single-article entry point, one after the other, for an
\* article that exists (1) or not (2), against a catalog that no backfill
\* changes.  The catalogs: n embedded tags, the tag after the TopK-th with the
\* vector of the TopK-th (two names with one embedding), or one tag without
\* an embedding.
SingleCatalogs ==
  {[t \in 1..n |-> Some(TagVec(Min(t, TopK)))] : n \in 0..(TopK + 1)}
    \cup {[t \in 1..1 |-> Null]}

InitSingle ==
  /\ articles = [a \in {1} |-> WrittenRow]
  /\ queue = <<>>
  /\ locked = [w \in Workers |-> {}]
  /\ tags \in SingleCatalogs
  /\ ai_classifications = EmptyBag
  /\ article_tags = EmptyBag
  /\ pc = [w \in Workers |-> "idle"]
  /\ batchSize = [w \in Workers |-> DefaultBatchSize]
  /\ body = [w \in Workers |-> Null]
  /\ items = [w \in Workers |-> <<>>]
  /\ idx = [w \in Workers |-> 0]
  /\ allTags = [w \in Workers |-> <<>>]
  /\ embedding = [w \in Workers |-> Null]
  /\ suggestions = [w \in Workers |-> <<>>]
  /\ results = [w \in Workers |-> <<>>]
  /\ response = [w \in Workers |-> NoResponse]
  /\ single = IdleSingle
  /\ seed = [r \in Seeders |-> IdleSeed]
  /\ text = NoText

NextSingle ==
  \/ \E a \in SingleArticleIds, apply \in BOOLEAN : SingleRequest(a, apply)
  \/ \E ok \in BOOLEAN : SingleFetchArticle(ok)
  \/ \E out \in EmbedOutcomes : SingleEmbed(out)
  \/ \E ok \in BOOLEAN : SingleLoadTags(ok)
  \/ \E ok \in BOOLEAN : SingleSaveResult(ok)
  \/ SingleApplyTags
  \/ SingleRespond

SpecSingle == InitSingle /\ [][NextSingle]_vars

\* ---------------------------------------------------- the ranking alone
\* The select and the ranking of the single-article handler (the batch
\* handler ranks with the same expressions), applied to an article embedding
\* and a catalog drawn from bounded sets.  A catalog holds up to MaxTags tags;
\* a tag has no embedding, one of two vectors of the article's dimension, or a
\* vector of another dimension.  The catalogs are taken up to the order of
\* their tags, which TagRows varies.
MaxTags == 6

RankValues == <<Null, Some(<<2>>), Some(<<4>>), Some(<<1, 1>>)>>
RankEmbeddings == {<<1>>, <<3>>, <<0, 0>>}

RankCatalogs ==
  UNION {{[t \in 1..n |-> RankValues[f[t]]] :
            f \in {g \in [1..n -> DOMAIN RankValues] :
                     \A i, j \in 1..n : i < j => g[i] <= g[j]}} :
         n \in 0..MaxTags}

InitRanking ==
  /\ articles = [a \in {1} |-> WrittenRow]
  /\ queue = <<>>
  /\ locked = [w \in Workers |-> {}]
  /\ tags \in RankCatalogs
  /\ ai_classifications = EmptyBag
  /\ article_tags = EmptyBag
  /\ pc = [w \in Workers |-> "idle"]
  /\ batchSize = [w \in Workers |-> DefaultBatchSize]
  /\ body = [w \in Workers |-> Null]
  /\ items = [w \in Workers |-> <<>>]
  /\ idx = [w \in Workers |-> 0]
  /\ allTags = [w \in Workers |-> <<>>]
  /\ embedding = [w \in Workers |-> Null]
  /\ suggestions = [w \in Workers |-> <<>>]
  /\ results = [w \in Workers |-> <<>>]
  /\ response = [w \in Workers |-> NoResponse]
  /\ \E e \in RankEmbeddings :
       single = [IdleSingle EXCEPT !.pc = "tags", !.article_id = 1,
                                   !.embedding = Some(e)]
  /\ seed = [r \in Seeders |-> IdleSeed]
  /\ text = NoText

NextRanking == \E ok \in BOOLEAN : SingleLoadTags(ok)

SpecRanking == InitRanking /\ [][NextRanking]_vars

\* ------------------------------------------------- the text to embed alone
\* `${article.title ?? ''}\n${article.snippet ?? ''}\n\n${article.contentBody ?? ''}`
\*    .slice(0, 4000)
\* A string is the sequence of its characters; a field of the article row is
\* Null or Some(string).
MaxChars == 4000

\* a string of n characters c
Fill(c, n) == [i \in 1..n |-> c]

\* field ?? ''
OrEmpty(f) == IF f = Null THEN <<>> ELSE f[1]

Template(a) ==
  OrEmpty(a.title) \o <<"\n">> \o OrEmpty(a.snippet) \o <<"\n", "\n">>
    \o OrEmpty(a.contentBody)

\* a text that is not cut
TextToEmbedWhole(a) == Template(a)

TextToEmbed(a) == Slice(Template(a), MaxChars)

\* the batch handler composes the text of the article it fetched
BatchTextToEmbed ==
  /\ text.path = "none"
  /\ text' = [text EXCEPT !.path = "batch", !.textToEmbed = Some(TextToEmbed(text))]
  /\ UNCHANGED <<queue, locked, storeVars, pc, localVars, single, seed>>

\* the single-article handler composes the text of the article it fetched
SingleTextToEmbed ==
  /\ text.path = "none"
  /\ text' = [text EXCEPT !.path = "single", !.textToEmbed = Some(TextToEmbed(text))]
  /\ UNCHANGED <<queue, locked, storeVars, pc, localVars, single, seed>>

\* lengths of the fields around the budget; a body of 50,000 characters
FieldLengths == {0, 1, MaxChars - 4, MaxChars - 3, MaxChars + 1}
BodyLengths == FieldLengths \cup {50000}

Fields(c, lengths) == {Null} \cup {Some(Fill(c, n)) : n \in lengths}

InitText ==
  /\ articles = [a \in {1} |-> WrittenRow]
  /\ queue = <<>>
  /\ locked = [w \in Workers |-> {}]
  /\ tags = [t \in TagIds |-> Null]
  /\ ai_classifications = EmptyBag
  /\ article_tags = EmptyBag
  /\ pc = [w \in Workers |-> "idle"]
  /\ batchSize = [w \in Workers |-> DefaultBatchSize]
  /\ body = [w \in Workers |-> Null]
  /\ items = [w \in Workers |-> <<>>]
  /\ idx = [w \in Workers |-> 0]
  /\ allTags = [w \in Workers |-> <<>>]
  /\ embedding = [w \in Workers |-> Null]
  /\ suggestions = [w \in Workers |-> <<>>]
  /\ results = [w \in Workers |-> <<>>]
  /\ response = [w \in Workers |-> NoResponse]
  /\ single = IdleSingle
  /\ seed = [r \in Seeders |-> IdleSeed]
  /\ \E t \in Fields("t", FieldLengths), sn \in Fields("s", FieldLengths),
        b \in Fields("b", BodyLengths) :
       text = [NoText EXCEPT !.title = t, !.snippet = sn, !.contentBody = b]

NextText == BatchTextToEmbed \/ SingleTextToEmbed

SpecText == InitText /\ [][NextText]_vars

\* ------------------------------------------------ the enqueue trigger alone
\* Inserts and updates of "Article" rows whose title, snippet and contentBody
\* are null or one of two texts, against a queue of at most MaxQueue rows.
ColumnValues(c, d) == {Null, Some(c), Some(d)}

EnqueueRows ==
  {Row(t, s, b) : t \in ColumnValues("a", "b"), s \in ColumnValues("s", "r"),
                  b \in ColumnValues("x", "y")}

NextEnqueue ==
  \/ \E new \in EnqueueRows : InsertArticle(new)
  \/ \E a \in DOMAIN articles : \E new \in EnqueueRows : UpdateArticle(a, new)

SpecEnqueue == Init /\ [][NextEnqueue]_vars

\* ------------------------------------------------ updates of written rows
\* Articles are inserted without a snippet and then updated to any row of
\* EnqueueRows: the snippet a row holds, an update has put there.
NoSnippetRows == {r \in EnqueueRows : r.snippet = Null}

NextUpdate ==
  \/ \E new \in NoSnippetRows : InsertArticle(new)
  \/ \E a \in DOMAIN articles : \E new \in EnqueueRows : UpdateArticle(a, new)

SpecUpdate == Init /\ [][NextUpdate]_vars

\* ------------------------------------------------ seed_tag_embeddings alone
\* Runs of seed_tag_embeddings, concurrent and repeated, against a catalog of
\* MaxSeedTags tags of which any may have its embedding already.
MaxSeedTags == 3

SeedCatalogs ==
  {[t \in 1..MaxSeedTags |-> IF t \in E THEN Some(TagVec(t)) ELSE Null] :
     E \in SUBSET (1..MaxSeedTags)}

InitSeed ==
  /\ articles = <<>>
  /\ queue = <<>>
  /\ locked = [w \in Workers |-> {}]
  /\ tags \in SeedCatalogs
  /\ ai_classifications = EmptyBag
  /\ article_tags = EmptyBag
  /\ pc = [w \in Workers |-> "idle"]
  /\ batchSize = [w \in Workers |-> DefaultBatchSize]
  /\ body = [w \in Workers |-> Null]
  /\ items = [w \in Workers |-> <<>>]
  /\ idx = [w \in Workers |-> 0]
  /\ allTags = [w \in Workers |-> <<>>]
  /\ embedding = [w \in Workers |-> Null]
  /\ suggestions = [w \in Workers |-> <<>>]
  /\ results = [w \in Workers |-> <<>>]
  /\ response = [w \in Workers |-> NoResponse]
  /\ single = IdleSingle
  /\ seed = [r \in Seeders |-> IdleSeed]
  /\ text = NoText

NextSeed ==
  \E r \in Seeders :
    \/ \E ok \in BOOLEAN : SeedSelect(r, ok)
    \/ \E out \in EmbedOutcomes : SeedRun(r, out)
    \/ \E ok \in BOOLEAN : SeedUpdate(r, ok)
    \/ SeedRespond(r)

SpecSeed == InitSeed /\ [][NextSeed]_vars

\* ------------------------------------ /process-queue with handlers that go on
\* Invocations of /process-queue against a queue of MaxQueue pending rows,
\* one per article, of which any may have been deleted since, and a catalog
\* whose tag has its embedding or not.  The runtime keeps running a handler
\* it has started: a handler that can take a step eventually takes one.
HandlerStep(w) ==
  \/ RpcSelect(w)
  \/ RpcCommit(w)
  \/ RpcError(w)
  \/ RpcRollback(w)
  \/ FallbackSelect(w)
  \/ FallbackSelectError(w)
  \/ FallbackMark(w)
  \/ RespondNoItems(w)
  \/ LoadTags(w)
  \/ FetchArticle(w)
  \/ \E out \in EmbedOutcomes : Embed(w, out)
  \/ \E ok \in BOOLEAN : SaveResult(w, ok)
  \/ ApplyTags(w)
  \/ MarkCompleted(w)
  \/ Respond(w)

InitBatch ==
  /\ \E S \in SUBSET (1..MaxQueue) : articles = [a \in S |-> WrittenRow]
  /\ queue = [i \in 1..MaxQueue |-> QueueRow(i)]
  /\ locked = [w \in Workers |-> {}]
  /\ tags \in {[t \in TagIds |-> Null], [t \in TagIds |-> Some(TagVec(t))]}
  /\ ai_classifications = EmptyBag
  /\ article_tags = EmptyBag
  /\ pc = [w \in Workers |-> "idle"]
  /\ batchSize = [w \in Workers |-> DefaultBatchSize]
  /\ body = [w \in Workers |-> Null]
  /\ items = [w \in Workers |-> <<>>]
  /\ idx = [w \in Workers |-> 0]
  /\ allTags = [w \in Workers |-> <<>>]
  /\ embedding = [w \in Workers |-> Null]
  /\ suggestions = [w \in Workers |-> <<>>]
  /\ results = [w \in Workers |-> <<>>]
  /\ response = [w \in Workers |-> NoResponse]
  /\ single = IdleSingle
  /\ seed = [r \in Seeders |-> IdleSeed]
  /\ text = NoText

NextBatch ==
  \E w \in Workers :
    \/ \E b \in BodyBatchSizes : Invoke(w, b)
    \/ HandlerStep(w)

SpecBatchFair ==
  InitBatch /\ [][NextBatch]_vars /\ \A w \in Workers : WF_vars(HandlerStep(w))

\* ------------------------------------------------ a worker that crashes
\* The runtime ends an invocation at one of its awaits: the handler takes no
\* further step and sends no response.  An open fetch_and_mark_queue
\* transaction is rolled back, which releases its row locks.  Its locals are
\* gone; the model keeps items, the rows the invocation held.
Crash(w) ==
  /\ pc[w] \notin {"idle", "done", "crashed"}
  /\ pc' = [pc EXCEPT ![w] = "crashed"]
  /\ locked' = [locked EXCEPT ![w] = {}]
  /\ batchSize' = [batchSize EXCEPT ![w] = DefaultBatchSize]
  /\ body' = [body EXCEPT ![w] = Null]
  /\ idx' = [idx EXCEPT ![w] = 0]
  /\ allTags' = [allTags EXCEPT ![w] = <<>>]
  /\ embedding' = [embedding EXCEPT ![w] = Null]
  /\ suggestions' = [suggestions EXCEPT ![w] = <<>>]
  /\ results' = [results EXCEPT ![w] = <<>>]
  /\ UNCHANGED <<queue, storeVars, items, response, otherVars>>

NextCrash == Next \/ \E w \in Workers : Crash(w)

SpecCrash == Init /\ [][NextCrash]_vars

\* ------------------------------------------------------------- the claims
\* the rows a claim has handed to its caller
Returned(w) ==
  IF pc[w] \in {"claimed", "done"} \cup LoopPcs THEN Range(items[w]) ELSE {}

\* the rows an invocation has started to process
Processed(w) ==
  IF pc[w] \in {"done"} \cup LoopPcs
  THEN {items[w][j] : j \in {j \in DOMAIN items[w] :
                               j < idx[w] \/ (j = idx[w] /\ pc[w] # "loop")}}
  ELSE {}

ProcessingRows(q) == {i \in DOMAIN q : q[i].status = "processing"}

StatusRank(st) ==
  CASE st = "pending" -> 0 [] st = "processing" -> 1 [] OTHER -> 2

\* C1: no queue row is ever handed to two callers: the sets of rows returned
\* to two invocations are disjoint.
C1_ClaimsDisjoint ==
  \A w, v \in Workers : w # v => Returned(w) \cap Returned(v) = {}

\* C2: two invocations that each claim 5 rows against exactly 5 pending rows
\* get sets that partition the 5 rows, and 5 rows end up marked processing.
C2_ScenarioCPartition ==
  (\A w \in Workers : pc[w] = "claimed") =>
     /\ UNION {Returned(w) : w \in Workers} = ScenarioRows
     /\ \A w, v \in Workers : w # v => Returned(w) \cap Returned(v) = {}
     /\ Cardinality(ProcessingRows(queue)) = DefaultBatchSize

\* C3: a claim(n) that selects its rows while no other claim is in flight
\* selects exactly min(n, k) of the k pending rows, and the rows it returns
\* are the rows it selected, each marked processing when returned.
C3_ClaimReturnsMin ==
  [][\A w \in Workers :
       LET quiet == \A v \in Workers \ {w} : ~InClaim(v)
           k == Cardinality(PendingRows(queue))
           n == batchSize[w]
       IN /\ (pc[w] = "rpc" /\ pc'[w] = "rpc_update" /\ quiet) =>
                /\ locked'[w] \subseteq PendingRows(queue)
                /\ Cardinality(locked'[w]) = Min(n, k)
          /\ (pc[w] = "fallback_select" /\ pc'[w] \in {"fallback_mark", "claimed"}
                /\ quiet) =>
                /\ Range(items'[w]) \subseteq PendingRows(queue)
                /\ Len(items'[w]) = Min(n, k)
          /\ (pc[w] = "rpc_update" /\ pc'[w] = "claimed") =>
                /\ Range(items'[w]) = locked[w]
                /\ Len(items'[w]) = Cardinality(locked[w])
                /\ \A i \in locked[w] : queue'[i].status = "processing"
          /\ (pc[w] = "fallback_mark" /\ pc'[w] = "claimed") =>
                /\ items'[w] = items[w]
                /\ \A i \in Range(items[w]) : queue'[i].status = "processing"
    ]_vars

\* a claim of 1 row returned 1 of 2 pending rows while the other invocation
\* had not started
C3_Witness ==
  \E w \in Workers :
    /\ pc[w] = "claimed"
    /\ Len(items[w]) = 1
    /\ queue[items[w][1]].status = "processing"
    /\ Cardinality(PendingRows(queue)) = 1
    /\ \A v \in Workers \ {w} : pc[v] = "idle"

\* C4: a claim selects in enqueued_at order: with a row it selects, it
\* selects every earlier pending row that no other in-flight claim has locked.
C4_ClaimIsFifo ==
  [][\A w \in Workers :
       LET avail == PendingRows(queue) \ LockedByOthers(w)
       IN /\ (pc[w] = "rpc" /\ pc'[w] = "rpc_update") =>
                \A r \in locked'[w] : \A e \in avail : e < r => e \in locked'[w]
          /\ (pc[w] = "fallback_select" /\ pc'[w] \in {"fallback_mark", "claimed"}) =>
                \A r \in Range(items'[w]) :
                   \A e \in avail : e < r => e \in Range(items'[w])
    ]_vars

C6_StatusMonotone ==
  [][\A i \in DOMAIN queue :
       /\ StatusRank(queue'[i].status) >= StatusRank(queue[i].status)
       /\ StatusRank(queue[i].status) = 2 => queue'[i].status = queue[i].status
    ]_vars

\* C7: no queue item is processed by two invocations.
C7_NoItemProcessedTwice ==
  \A w, v \in Workers : w # v => Processed(w) \cap Processed(v) = {}

\* C8: inside one batch the failure of an item never stops the batch: every
\* step that leaves an item marks it completed or failed and moves on to the
\* next item, the loop is left only after the last item, and the handler
\* then answers normally (no exception escapes).
C8_FailureIsolated ==
  [][\A w \in Workers :
       /\ (pc[w] \in LoopPcs /\ idx'[w] # idx[w]) =>
             /\ idx'[w] = idx[w] + 1
             /\ pc'[w] = "loop"
             /\ items'[w] = items[w]
             /\ queue'[items[w][idx[w]]].status \in {"completed", "failed"}
       /\ pc[w] \in LoopPcs => pc'[w] \in LoopPcs \cup {"done"}
       /\ (pc[w] \in LoopPcs /\ pc'[w] = "done") =>
             /\ idx[w] > Len(items[w])
             /\ response'[w].status = OkStatus
    ]_vars

\* a finished batch of two items whose first item failed and whose second
\* item was completed
C8_Witness ==
  \E w \in Workers :
    /\ pc[w] = "done"
    /\ response[w].kind = "processed"
    /\ Len(items[w]) = 2
    /\ queue[items[w][1]].status = "failed"
    /\ queue[items[w][2]].status = "completed"

\* the entries of a details list for article a with status st
DetailsOf(d, a, st) == {j \in DOMAIN d : d[j].article_id = a /\ d[j].status = st}

\* the items of a batch for article a whose queue row has status st
ItemsOf(w, a, st) ==
  {j \in DOMAIN items[w] :
     queue[items[w][j]].article_id = a /\ queue[items[w][j]].status = st}

QueueArticles == {queue[i].article_id : i \in DOMAIN queue}

\* C9: the response of a batch lists every claimed item that ended failed
\* with status "failed" and an error, and every item that ended completed
\* with status "success".
C9_ResponseEnumeratesOutcomes ==
  \A w \in Workers :
    (pc[w] = "done" /\ items[w] # <<>>) =>
      LET d == response[w].details
      IN \A a \in QueueArticles :
           /\ Cardinality(DetailsOf(d, a, "failed")) = Cardinality(ItemsOf(w, a, "failed"))
           /\ \A j \in DetailsOf(d, a, "failed") : d[j].error # ""
           /\ Cardinality(DetailsOf(d, a, "success")) = Cardinality(ItemsOf(w, a, "completed"))

\* C10 as stated: every response of the batch entry point is a 200 that
\* carries the processed count and the details list.
C10_AlwaysProcessedResponse ==
  \A w \in Workers :
    pc[w] = "done" =>
      /\ response[w].status = OkStatus
      /\ response[w].kind = "processed"

\* C10 as amended: every response of the batch entry point is a 200, whatever
\* number of the claimed items failed; it carries the processed count and the
\* details list when at least one item was claimed, and only a message when
\* the claim returned no item.
C10_ResponseOk ==
  \A w \in Workers :
    pc[w] = "done" =>
      /\ response[w].status = OkStatus
      /\ items[w] # <<>> =>
           /\ response[w].kind = "processed"
           /\ response[w].processed = Len(response[w].details)
      /\ items[w] = <<>> => response[w].kind = "message"

\* a finished batch of two items that both failed
C10_Witness ==
  \E w \in Workers :
    /\ pc[w] = "done"
    /\ Len(items[w]) = 2
    /\ \A j \in DOMAIN items[w] : queue[items[w][j]].status = "failed"
    /\ response[w].status = OkStatus

\* an embedding the worker may rank with: a vector of the catalog's dimension
ValidEmbedding(e) == e # Null /\ Len(e[1]) = EmbeddingDim

\* C11: when the embedding provider returns an empty, malformed or
\* wrong-dimension result for a claimed item, the item is marked failed with
\* reason "Embedding failed", the attempt writes no ai_classifications row and
\* no article_tags row, and the result never reaches the ranking step.
C11_EmbeddingValidated ==
  [][\A w \in Workers :
       /\ (pc[w] = "embed" /\ pc'[w] # "embed" /\ results'[w] = results[w]
             /\ ~ValidEmbedding(embedding'[w])) =>
            /\ pc'[w] = "loop"
            /\ queue'[Item(w)].status = "failed"
            /\ queue'[Item(w)].error_message = "Embedding failed"
       /\ (pc[w] \in {"save", "apply"} /\ pc'[w] # pc[w]
             /\ ~ValidEmbedding(embedding[w])) =>
            /\ ai_classifications' = ai_classifications
            /\ article_tags' = article_tags
    ]_vars

\* C12: when the article of a claimed item does not exist as the item is
\* processed, the item is marked failed with reason "Article not found",
\* nothing is written to ai_classifications or article_tags, and the loop
\* goes on with the next item of the batch.
C12_ArticleNotFound ==
  [][\A w \in Workers :
       (pc[w] = "loop" /\ idx[w] <= Len(items[w]) /\ ItemArticle(w) \notin DOMAIN articles
          /\ <<pc[w], idx[w]>> # <<pc'[w], idx'[w]>>) =>
         /\ queue'[Item(w)].status = "failed"
         /\ queue'[Item(w)].error_message = "Article not found"
         /\ ai_classifications' = ai_classifications
         /\ article_tags' = article_tags
         /\ pc'[w] = "loop"
         /\ idx'[w] = idx[w] + 1
         /\ items'[w] = items[w]
    ]_vars

\* a finished batch of two items: the article of the first was gone and the
\* second was completed
C12_Witness ==
  \E w \in Workers :
    /\ pc[w] = "done"
    /\ Len(items[w]) = 2
    /\ queue[items[w][1]].error_message = "Article not found"
    /\ queue[items[w][1]].article_id \notin DOMAIN articles
    /\ queue[items[w][2]].status = "completed"

\* C13: article_tags never holds two rows with the same (article_id, tag_id),
\* and an invocation that applies the tags of an article whose pairs another
\* invocation has already written goes on to mark its item completed: the
\* conflict is not an error of the statement and not a failure of the item.
C13_AssignmentsUnique ==
  /\ [](\A p \in BagToSet(article_tags) : CopiesIn(p, article_tags) = 1)
  /\ [][\A w \in Workers :
          /\ (pc[w] = "apply" /\ pc'[w] # "apply") =>
               /\ pc'[w] = "complete"
               /\ queue'[Item(w)].status = queue[Item(w)].status
               /\ results'[w] = results[w]
               /\ ItemArticle(w) \in DOMAIN articles =>
                    \A p \in ToInsert(ItemArticle(w), suggestions[w]) :
                       CopiesIn(p, article_tags') = 1
          /\ (pc[w] = "complete" /\ pc'[w] # "complete") =>
               queue'[Item(w)].status = "completed"
       ]_vars

\* two invocations hold duplicate items of one article and both have applied
\* the same tag to it
C13_Witness ==
  \E w, v \in Workers :
    /\ w # v
    /\ pc[w] = "complete" /\ pc[v] = "complete"
    /\ Item(w) # Item(v)
    /\ ItemArticle(w) = ItemArticle(v)
    /\ suggestions[w] # <<>> /\ suggestions[v] = suggestions[w]
    /\ BagToSet(article_tags) = ToInsert(ItemArticle(w), suggestions[w])

\* the rows of article_tags of article a
Assigned(a) == {p \in BagToSet(article_tags) : p[1] = a}

\* C14: classification is idempotent on the assignments: once a run has
\* written the assignments of an article, a further run for the same article
\* with the same embedding against the unchanged catalog leaves the rows of
\* article_tags exactly as they are.
C14_ApplyIdempotent ==
  [][(single.pc = "apply" /\ single'.pc # "apply"
        /\ Assigned(single.article_id) # {})
       => article_tags' = article_tags
    ]_vars

\* the tags a ranking against emb may suggest: those with an embedding of the
\* dimension of emb
Eligible(emb) ==
  {t \in DOMAIN tags : tags[t] # Null /\ Len(tags[t][1]) = Len(emb)}

\* the squared L2 distance of the embedding of tag t to emb
DistanceTo(emb, t) == SumSq(emb, tags[t][1], 1)

\* C15: the suggestions are sorted by non-decreasing distance, hold only
\* eligible tags (an embedding, of the dimension of the article embedding),
\* each once and with its distance, hold no tag farther than an eligible tag
\* that was left out, and are min(5, number of eligible tags) long.
C15_RankingCorrect ==
  single.pc = "save" =>
    LET emb == single.embedding[1]
        S == single.suggestions
    IN /\ \A i, j \in DOMAIN S : i < j => S[i].distance <= S[j].distance
       /\ \A i \in DOMAIN S :
            /\ S[i].tag_id \in Eligible(emb)
            /\ S[i].distance = DistanceTo(emb, S[i].tag_id)
       /\ \A i, j \in DOMAIN S : i # j => S[i].tag_id # S[j].tag_id
       /\ \A t \in Eligible(emb) \ {S[i].tag_id : i \in DOMAIN S} :
            \A i \in DOMAIN S : S[i].distance <= DistanceTo(emb, t)
       /\ Len(S) = Min(TopK, Cardinality(Eligible(emb)))

\* a ranking that cut more than five eligible tags, not all at one distance,
\* to five
C15_Witness ==
  /\ single.pc = "save"
  /\ Len(single.suggestions) = TopK
  /\ Cardinality(Eligible(single.embedding[1])) > TopK
  /\ single.suggestions[1].distance < single.suggestions[TopK].distance

\* the characters of a field, none for a null field
Chars(f) == IF f = Null THEN <<>> ELSE f[1]

\* C16: the text handed to the embedding provider is the first 4000
\* characters of title + "\n" + snippet + "\n\n" + body (a null field counting
\* as empty), so it is never longer than 4000 characters, in the batch path
\* and in the single-article path.
C16_TextTruncated ==
  text.path # "none" =>
    LET full == Chars(text.title) \o <<"\n">> \o Chars(text.snippet)
                  \o <<"\n", "\n">> \o Chars(text.contentBody)
        given == text.textToEmbed[1]
    IN /\ Len(given) <= 4000
       /\ Len(given) = IF Len(full) < 4000 THEN Len(full) ELSE 4000
       /\ \A i \in 1..Len(given) : given[i] = full[i]

\* the text of an article without a title and with a body of 50,000
\* characters was cut to 4000 characters
C16_Witness ==
  /\ text.path # "none"
  /\ text.title = Null
  /\ text.contentBody # Null /\ Len(text.contentBody[1]) = 50000
  /\ Len(text.textToEmbed[1]) = 4000

\* the snapshot of the catalog an invocation ranks against holds no tag with
\* an embedding
NoEmbeddedTag(rows) == \A i \in DOMAIN rows : rows[i].embedding = Null

\* the ai_classifications row of a batch item of article a without suggestions
EmptyRecord(a) == [article_id |-> a, suggestions |-> <<>>, applied |-> TRUE]

\* C17: when the catalog holds no tag with an embedding, an item that reaches
\* the ranking gets an empty suggestions list, its ai_classifications row is
\* inserted with that empty list (one row, unless the store refuses the
\* insert), no article_tags row is written, and the item is marked completed,
\* not failed.
C17_EmptyCatalog ==
  [][\A w \in Workers :
       NoEmbeddedTag(allTags[w]) =>
         /\ (pc[w] = "embed" /\ pc'[w] = "save") => suggestions'[w] = <<>>
         /\ (pc[w] = "save" /\ pc'[w] # "save") =>
              /\ pc'[w] = "complete"
              /\ article_tags' = article_tags
              /\ \/ ai_classifications' =
                      ai_classifications (+) SetToBag({EmptyRecord(ItemArticle(w))})
                 \/ ai_classifications' = ai_classifications
         /\ (pc[w] = "complete" /\ pc'[w] # "complete") =>
              /\ queue'[Item(w)].status = "completed"
              /\ article_tags' = article_tags
              /\ ai_classifications' = ai_classifications
    ]_vars

\* a finished batch of one item, against a catalog without embeddings: the
\* item is completed, one row with an empty suggestions list was written and
\* no assignment
C17_Witness ==
  \E w \in Workers :
    /\ pc[w] = "done"
    /\ Len(items[w]) = 1
    /\ queue[items[w][1]].status = "completed"
    /\ \A t \in DOMAIN tags : tags[t] = Null
    /\ ai_classifications = SetToBag({EmptyRecord(queue[items[w][1]].article_id)})
    /\ article_tags = EmptyBag

\* the ai_classifications row of the single-article run in progress
SingleRecord ==
  [article_id |-> single.article_id, suggestions |-> single.suggestions,
   applied |-> single.apply]

\* C18: a single-article call with apply=false computes the suggestions,
\* inserts its ai_classifications row (applied false) and answers 200 with
\* the suggestions, and leaves article_tags unchanged; a step of this entry
\* point changes article_tags only when apply is true.
C18_DryRun ==
  [][/\ (single.pc \notin {"idle", "done"} /\ ~single.apply) =>
          article_tags' = article_tags
     /\ article_tags' # article_tags => (single.apply /\ single.pc = "apply")
     /\ (single.pc = "save" /\ single'.pc # "save" /\ ~single.apply) =>
          /\ single'.pc = "respond"
          /\ \/ ai_classifications' = ai_classifications (+) SetToBag({SingleRecord})
             \/ ai_classifications' = ai_classifications
     /\ (single.pc = "respond" /\ single'.pc # "respond") =>
          /\ single'.status = OkStatus
          /\ single'.suggestions = single.suggestions
    ]_vars

\* a finished dry run: 200, suggestions, its row with applied false, and no
\* assignment
C18_Witness ==
  /\ single.pc = "done"
  /\ single.status = OkStatus
  /\ ~single.apply
  /\ single.suggestions # <<>>
  /\ ai_classifications = SetToBag({SingleRecord})
  /\ article_tags = EmptyBag

\* C19: every insert of an article, and every update of an article that
\* changes its title or its body, appends exactly one pending queue row for
\* that article id and leaves the other rows as they are, whether or not a
\* pending row of the article is in the queue.
C19_EnqueueOnWrite ==
  [][\A a \in DOMAIN articles' :
       LET inserted == a \notin DOMAIN articles
           changed == /\ a \in DOMAIN articles
                      /\ \/ articles'[a].title # articles[a].title
                         \/ articles'[a].contentBody # articles[a].contentBody
       IN (inserted \/ changed) =>
            queue' = Append(queue, [article_id |-> a, status |-> "pending",
                                    error_message |-> ""])
    ]_vars

\* an article with two pending rows: the row of an earlier write and the row
\* of an update that changed its title or its body
C19_Witness ==
  /\ Len(queue) = 2
  /\ queue[1].article_id = queue[2].article_id
  /\ queue[1].status = "pending" /\ queue[2].status = "pending"
  /\ articles[queue[1].article_id].title = Null
  /\ articles[queue[1].article_id].contentBody # Null

C21_BackfillIdempotent ==
  [][\A r \in Seeders :
       /\ \A t \in DOMAIN tags : tags[t] # Null => tags'[t] = tags[t]
       /\ (seed[r].pc = "run" /\ seed'[r].pc = "done" /\ seed'[r].status = OkStatus
             /\ seed[r].updated = Len(seed[r].tags)) =>
            \A t \in DOMAIN tags : tags'[t] = Some(TagVec(t))
       /\ (seed[r].pc \in {"idle", "done"} /\ seed'[r] # seed[r]
             /\ NullTags(tags) = {} /\ seed'[r].status # ErrorStatus) =>
            /\ seed'[r].pc = "done"
            /\ seed'[r].updated = 0
            /\ tags' = tags
    ]_vars

\* two concurrent runs have both finished without a failure and some tag was
\* written by both: the catalog is the one a single run leaves
C21_Witness ==
  /\ \A r \in Seeders :
       seed[r].pc = "done" /\ seed[r].status = OkStatus /\ seed[r].updated > 0
  /\ seed["s1"].updated + seed["s2"].updated > Cardinality(DOMAIN tags)
  /\ \A t \in DOMAIN tags : tags[t] = Some(TagVec(t))

\* C22: when the claim step fails for an infrastructure reason (the RPC and
\* the fallback select both fail), the batch call answers with a top-level
\* error response, not a 200; and the claim is all-or-nothing: the rows a
\* claim returns are all marked processing, a failed claim returns no row and
\* changes none, and every row marked processing has been handed to an
\* invocation.
C22_ClaimFailureSurfaced ==
  [][\A w \in Workers :
       /\ (pc[w] = "claim_failed" /\ pc'[w] = "done") =>
            /\ response'[w].kind = "error"
            /\ response'[w].status # OkStatus
       /\ (InClaim(w) /\ pc'[w] = "claimed") =>
            \A i \in Range(items'[w]) : queue'[i].status = "processing"
       /\ (InClaim(w) /\ pc'[w] = "claim_failed") =>
            /\ items'[w] = <<>>
            /\ queue' = queue
       /\ \A i \in ProcessingRows(queue') \ ProcessingRows(queue) :
            \E v \in Workers : i \in Range(items'[v])
    ]_vars

\* the invocation w has left the queue row i of its items behind
Finished(w, i) == \E j \in DOMAIN items[w] : items[w][j] = i /\ j < idx[w]

\* C23: an invocation that goes on running brings every queue row it claimed
\* to completed or failed while it is still in its loop, that is before it
\* answers, and then answers; it answers only after the last of its items;
\* and a row is completed or failed once every invocation that holds it in
\* its items has answered.
C23_ClaimedItemsFinish ==
  /\ \A w \in Workers : \A i \in 1..MaxQueue :
       (pc[w] = "claimed" /\ i \in Range(items[w]))
         ~> (/\ pc[w] = "loop"
             /\ Finished(w, i)
             /\ queue[i].status \in {"completed", "failed"})
  /\ \A w \in Workers : (pc[w] = "claimed") ~> (pc[w] = "done")
  /\ [](\A w \in Workers :
          pc[w] = "done" => \A i \in Range(items[w]) : Finished(w, i))
  /\ [](\A i \in DOMAIN queue :
          LET holders == {w \in Workers : i \in Range(items[w])}
          IN (holders # {} /\ \A w \in holders : pc[w] = "done") =>
               queue[i].status \in {"completed", "failed"})

\* an invocation has answered after it claimed every row of the queue: the
\* row of a deleted article is failed and a row of an article is completed
C23_Witness ==
  \E w \in Workers :
    /\ pc[w] = "done"
    /\ Range(items[w]) = DOMAIN queue
    /\ \E i \in DOMAIN queue :
         queue[i].status = "failed" /\ queue[i].article_id \notin DOMAIN articles
    /\ \E i \in DOMAIN queue : queue[i].status = "completed"
    /\ \A i \in DOMAIN queue : queue[i].status \in {"completed", "failed"}

\* the invocations that hold the queue row i in their items
Holders(i) == {w \in Workers : i \in Range(items[w])}

\* a row marked processing whose claiming invocations have all crashed
Abandoned(i) ==
  /\ queue[i].status = "processing"
  /\ Holders(i) # {}
  /\ \A w \in Holders(i) : pc[w] = "crashed"

\* C24: a row marked processing that its claiming worker abandoned by
\* crashing stays as it is forever: no step of the system (a later claim, a
\* later batch invocation, the enqueue trigger, the backfill) changes the
\* row, and no later invocation gets it.
C24_AbandonedRowsStay ==
  [][\A i \in DOMAIN queue :
       Abandoned(i) =>
         /\ queue'[i] = queue[i]
         /\ \A w \in Workers : i \in Range(items'[w]) => i \in Range(items[w])
    ]_vars

\* a worker crashed with the first row of the queue marked processing, and
\* another invocation, which never held that row, has since claimed and
\* finished the row enqueued after it
C24_Witness ==
  /\ Len(queue) = 2
  /\ Abandoned(1)
  /\ \E w \in Workers :
       /\ pc[w] = "done"
       /\ items[w] = <<2>>
       /\ queue[2].status \in {"completed", "failed"}

\* C25: a write to the articles that inserts no article and changes neither
\* the title nor the body of an article (it changes only the snippet, or
\* nothing) leaves the queue as it is: no queue row is inserted.
C25_UnchangedTextNoEnqueue ==
  [][(/\ DOMAIN articles' = DOMAIN articles
      /\ \A a \in DOMAIN articles :
           /\ articles'[a].title = articles[a].title
           /\ articles'[a].contentBody = articles[a].contentBody)
       => queue' = queue
    ]_vars

\* an article whose snippet, and nothing else, was updated since its insert:
\* the queue holds the row of the insert only
C25_Witness ==
  /\ DOMAIN articles = {1}
  /\ articles[1].snippet = Some("s")
  /\ queue = <<QueueRow(1)>>

\* the queue rows of article a marked completed
CompletedRows(a) ==
  {i \in DOMAIN queue : queue[i].article_id = a /\ queue[i].status = "completed"}

\* the number of ai_classifications rows of article a
RecordCount(a) ==
  BagCardinality([r \in {x \in DOMAIN ai_classifications : x.article_id = a}
                    |-> ai_classifications[r]])

\* C26: a queue item is marked completed only after an ai_classifications
\* row of its article has been stored by the same attempt: in every state,
\* for every article, the completed queue rows are at most as many as the
\* stored ai_classifications rows, also when the insert returns an error.
C26_CompletedHasRecord ==
  \A a \in QueueArticles : Cardinality(CompletedRows(a)) <= RecordCount(a)

\* an ai_classifications row with applied = true, of article a, whose
\* suggestions hold tag t
Backs(r, a, t) ==
  /\ r.article_id = a
  /\ r.applied
  /\ \E i \in DOMAIN r.suggestions : r.suggestions[i].tag_id = t

\* C27: every article_tags row the classifier wrote is backed by an audit
\* record: in every state, for each row (article, tag) of article_tags there
\* is a stored ai_classifications row of that article with applied = true
\* whose suggestions hold that tag.
C27_AssignmentsAudited ==
  \A p \in BagToSet(article_tags) :
    \E r \in BagToSet(ai_classifications) : Backs(r, p[1], p[2])

\* C28: an invocation whose request gives batch_size n >= 0 claims at most n
\* queue rows, so it processes at most n; a step of an invocation whose
\* request gives batch_size 0 changes no queue row; and a queue row is
\* changed only by an invocation that holds it in its items.
C28_BatchSizeBounds ==
  [][/\ \A w \in Workers :
          body[w] # Null =>
            /\ locked'[w] # locked[w] => Cardinality(locked'[w]) <= body[w][1]
            /\ items'[w] # items[w] => Len(items'[w]) <= body[w][1]
            /\ (body[w] = Some(0) /\ pc'[w] # pc[w]) =>
                 \A i \in DOMAIN queue : queue'[i] = queue[i]
     /\ \A i \in DOMAIN queue :
          queue'[i] # queue[i] => \E w \in Workers : i \in Range(items'[w])
    ]_vars

\* C29: an attempt that ends with its queue item marked failed has written
\* no article_tags row: a step gives an item up as failed only before the
\* attempt has reached its writes, rows are added to article_tags only by the
\* upsert step of an attempt, and an attempt that has made that step ends
\* with its item marked completed.
C29_FailedWritesNoTags ==
  [][\A w \in Workers :
       /\ (pc[w] \in LoopPcs /\ idx'[w] # idx[w]
             /\ queue'[Item(w)].status = "failed") =>
            /\ pc[w] \in {"loop", "embed"}
            /\ article_tags' = article_tags
       /\ (pc[w] = "apply" /\ pc'[w] # "apply") => pc'[w] = "complete"
       /\ (pc[w] = "complete" /\ pc'[w] # "complete") =>
            /\ queue'[Item(w)].status = "completed"
            /\ article_tags' = article_tags
       /\ (BagToSet(article_tags') \ BagToSet(article_tags) # {}) =>
            \E v \in Workers : pc[v] = "apply" /\ pc'[v] = "complete"
    ]_vars

\* a finished batch of two items of two articles: the first attempt ended
\* failed and its article has no article_tags row, the second ended completed
\* and its article has one
C29_Witness ==
  \E w \in Workers :
    /\ pc[w] = "done"
    /\ Len(items[w]) = 2
    /\ queue[items[w][1]].status = "failed"
    /\ queue[items[w][2]].status = "completed"
    /\ queue[items[w][1]].article_id # queue[items[w][2]].article_id
    /\ queue[items[w][1]].article_id \in DOMAIN articles
    /\ Assigned(queue[items[w][1]].article_id) = {}
    /\ Assigned(queue[items[w][2]].article_id) # {}

\* the tags of a snapshot that a ranking against the vector e can suggest
SnapshotEligible(rows, e) ==
  {rows[j].id : j \in {k \in DOMAIN rows :
                         /\ rows[k].embedding # Null
                         /\ Len(rows[k].embedding[1]) = Len(e)}}

\* C30: all items of a batch are ranked against the snapshot of the catalog
\* loaded once before the first item.  The snapshot stays as loaded while the
\* loop runs; the suggestions of an item are tags with an embedding in the
\* snapshot (all of them, up to TopK), whatever the backfill has stored since;
\* and no step of an invocation changes the catalog.
C30_OneSnapshotPerBatch ==
  [][\A w \in Workers :
       /\ (pc[w] \in LoopPcs /\ pc'[w] \in LoopPcs) => allTags'[w] = allTags[w]
       /\ (pc[w] = "embed" /\ pc'[w] = "save") =>
            LET suggested == {suggestions'[w][j].tag_id : j \in DOMAIN suggestions'[w]}
                eligible == SnapshotEligible(allTags[w], embedding'[w][1])
            IN /\ suggested \subseteq eligible
               /\ Cardinality(eligible) <= TopK => suggested = eligible
       /\ (pc'[w] # pc[w] \/ idx'[w] # idx[w]) => tags' = tags
    ]_vars

\* an invocation at its second item: the snapshot it loaded holds no
\* embedding, the backfill has stored one since, and the item got no
\* suggestion
C30_Witness ==
  \E w \in Workers :
    /\ pc[w] = "save"
    /\ idx[w] = 2
    /\ Len(embedding[w][1]) = EmbeddingDim
    /\ NoEmbeddedTag(allTags[w])
    /\ \E t \in DOMAIN tags : tags[t] # Null
    /\ suggestions[w] = <<>>
====
